---- MODULE Spec2Model ----
(***************************************************************************)
(* The scaffolder actions of plugins/scaffolder-backend-module-http-       *)
(* advanced.  http:backstage:request:advanced: the handler, the retry loop *)
(* makeRequestWithRetry and the page loop handlePagination.                *)
(* http:advanced:request: the handler and the retry loop                   *)
(* requestWithRetries.  One behaviour is one invocation of one handler.    *)
(* Every await of the code (fetch, sleep, response.json) is a step of its  *)
(* own.                                                                    *)
(***************************************************************************)
EXTENDS Integers, Sequences, FiniteSets, TLC

(***************************************************************************)
(* Bounds of the model.                                                    *)
(***************************************************************************)
MaxRetriesBound == 3
MaxPagesBound == 3
BigPage == 10

(***************************************************************************)
(* Program constants.                                                      *)
(***************************************************************************)
DefaultRetryDelay == 1000
OffsetPageSize == 50
MockStatus == 200

DefaultRetryOn == {408, 429, 500, 502, 503, 504}

DEFAULT_RETRIES == 3
RETRY_STATUSES == {429, 500, 502, 503}
RwrBaseDelay == 500

(* the ids of the two actions *)
AdvancedAction == "http:backstage:request:advanced"
PollingAction == "http:advanced:request"
WebhookPlugin == "webhook"

(***************************************************************************)
(* The environment: what a fetch can answer.                               *)
(***************************************************************************)
Statuses == {200, 404, 503, 504}
TransportErrors == {"ECONNRESET", "AbortError"}
NoError == "null"
(* the parser failing with the message of a connection failure *)
DecodeError_LikeTransport == "ECONNRESET"

DecodeError == "Unexpected token in JSON"
ExhaustedError == "Request failed after all retries"

(* milliseconds Date.now() advances while a fetch is awaited: the least a  *)
(* fetch can take; a longer one only lengthens the duration measured      *)
FetchLatencies == {0}

(* milliseconds by which the timer of sleep(ms) fires after ms have passed *)
SleepOvershoots == {0, 1}

StatusText(s) ==
  CASE s = 200 -> "OK"
    [] s = 404 -> "Not Found"
    [] s = 503 -> "Service Unavailable"
    [] s = 504 -> "Gateway Timeout"
    [] OTHER -> ""

(***************************************************************************)
(* JSON values, as far as the code looks into them.                        *)
(***************************************************************************)
Undefined == [t |-> "undefined", n |-> 0, s |-> ""]
ArrayOf(k) == [t |-> "array", n |-> k, s |-> ""]
NumberValue == [t |-> "number", n |-> 1, s |-> ""]
StringValue(str) == [t |-> "string", n |-> 0, s |-> str]

NoFields == [items |-> Undefined, next |-> Undefined]

InvalidJson == [t |-> "invalid", n |-> 0, s |-> "", fields |-> NoFields]
ArrayBody(k) == [t |-> "array", n |-> k, s |-> "", fields |-> NoFields]
ObjectBody(it, nx) ==
  [t |-> "object", n |-> 0, s |-> "", fields |-> [items |-> it, next |-> nx]]

PageLens == {0, 1, BigPage}

ItemValues == {ArrayOf(k) : k \in PageLens} \cup {NumberValue, Undefined}
CursorValues ==
  {StringValue("c1"), StringValue("c2"), StringValue(""), Undefined}

PageBodies ==
  {ArrayBody(k) : k \in PageLens}
    \cup {ObjectBody(it, Undefined) : it \in ItemValues}
    \cup {ObjectBody(ArrayOf(1), nx) : nx \in CursorValues}
    \cup {InvalidJson}

SingleBodies == {ArrayBody(1), ObjectBody(Undefined, Undefined), InvalidJson}

IsArray(v) == v.t = "array"

(* only a missing value taken as falsy, the empty string passing the test *)
Truthy_OnlyUndefined(v) == v.t # "undefined"

Truthy(v) ==
  CASE v.t = "undefined" -> FALSE
    [] v.t = "string" -> v.s # ""
    [] v.t = "number" -> v.n # 0
    [] OTHER -> TRUE

(* a path of one key; on a value that is not an object every key is undefined *)
getValueByPath(obj, path) ==
  IF obj.t = "object" /\ path \in DOMAIN obj.fields THEN obj.fields[path]
  ELSE Undefined

(***************************************************************************)
(* Request bodies (input.body) and their JSON text.  A text is a sequence  *)
(* of characters; a mapping is the sequence of its members in insertion    *)
(* order.                                                                  *)
(***************************************************************************)
Quote == "\""
Backslash == "\\"

NumberMember(k) == [t |-> "number", n |-> k, chars |-> <<>>]
StringMember(str) == [t |-> "string", n |-> 0, chars |-> str]
LiteralMember(name) == [t |-> name, n |-> 0, chars |-> <<>>]

MemberKeys == {<<"a">>, <<"b">>}
MemberValues ==
  {NumberMember(1), StringMember(<<"1">>), StringMember(<<Quote, "a">>),
   LiteralMember("true"), LiteralMember("null")}

NoBody == [t |-> "none", chars |-> <<>>, members |-> <<>>]
TextBody(str) == [t |-> "text", chars |-> str, members |-> <<>>]
MappingBody(mem) == [t |-> "object", chars |-> <<>>, members |-> mem]

Mappings ==
  {<<>>}
    \cup {<<[key |-> k, value |-> v]>> : k \in MemberKeys, v \in MemberValues}
    \cup {mem \in {<<[key |-> k1, value |-> v1], [key |-> k2, value |-> v2]>> :
                      k1 \in MemberKeys, k2 \in MemberKeys,
                      v1 \in MemberValues, v2 \in MemberValues} :
            mem[1].key # mem[2].key}

Bodies ==
  {NoBody, TextBody(<<"h", "i">>), TextBody(<<"{", "}">>)}
    \cup {MappingBody(mem) : mem \in Mappings}

(* the bodies http:advanced:request is run with *)
RwrBodies ==
  {TextBody(<<"h", "i">>),
   MappingBody(<<[key |-> <<"a">>, value |-> StringMember(<<Quote, "a">>)]>>)}

Digits == <<"0", "1", "2", "3", "4", "5", "6", "7", "8", "9">>

(* the characters of a string between the quotes of its JSON text *)
RECURSIVE Escaped(_)
Escaped(str) ==
  IF str = <<>> THEN <<>>
  ELSE (IF Head(str) \in {Quote, Backslash} THEN <<Backslash, Head(str)>>
        ELSE <<Head(str)>>) \o Escaped(Tail(str))

StringifyString(str) == <<Quote>> \o Escaped(str) \o <<Quote>>

StringifyMember(v) ==
  CASE v.t = "number" -> <<Digits[v.n + 1]>>
    [] v.t = "string" -> StringifyString(v.chars)
    [] v.t = "true" -> <<"t", "r", "u", "e">>
    [] v.t = "false" -> <<"f", "a", "l", "s", "e">>
    [] v.t = "null" -> <<"n", "u", "l", "l">>

RECURSIVE StringifyMembers(_)
StringifyMembers(mem) ==
  IF mem = <<>> THEN <<>>
  ELSE StringifyString(mem[1].key) \o <<":">> \o StringifyMember(mem[1].value)
         \o (IF Len(mem) > 1 THEN <<",">> ELSE <<>>)
         \o StringifyMembers(Tail(mem))

(* JSON.stringify of a body *)
JsonStringify(body) ==
  IF body.t = "text" THEN StringifyString(body.chars)
  ELSE <<"{">> \o StringifyMembers(body.members) \o <<"}">>

(***************************************************************************)
(* Inputs of the action (inputSchema).                                     *)
(***************************************************************************)
NoRetry ==
  [present |-> FALSE, enabled |-> FALSE, maxRetries |-> 0, retryDelay |-> 0,
   retryOn |-> {}, exponentialBackoff |-> TRUE]

RetryDelays == {0, 500}
RetryOnSets == {DefaultRetryOn, {}, {404}, {200, 503}}

EnabledRetries ==
  [present : {TRUE}, enabled : {TRUE}, maxRetries : 0..MaxRetriesBound,
   retryDelay : RetryDelays, retryOn : RetryOnSets,
   exponentialBackoff : BOOLEAN]

DisabledRetries ==
  [present : {TRUE}, enabled : {FALSE}, maxRetries : 0..MaxRetriesBound,
   retryDelay : {500}, retryOn : {DefaultRetryOn},
   exponentialBackoff : {TRUE}]

PagedRetries ==
  {[present |-> TRUE, enabled |-> TRUE, maxRetries |-> 1, retryDelay |-> 500,
    retryOn |-> DefaultRetryOn, exponentialBackoff |-> TRUE]}

NoPagination ==
  [present |-> FALSE, enabled |-> FALSE, type |-> "offset", maxPages |-> 0,
   resultsPath |-> "", nextCursorPath |-> ""]

Paginations ==
  [present : {TRUE}, enabled : {TRUE}, type : {"offset", "page"},
   maxPages : 1..MaxPagesBound, resultsPath : {"", "items"},
   nextCursorPath : {""}]
    \cup
  [present : {TRUE}, enabled : {TRUE}, type : {"cursor"},
   maxPages : 1..MaxPagesBound, resultsPath : {"", "items"},
   nextCursorPath : {"", "next"}]

(* the paginations that are run with a retry policy *)
RetriedPaginations ==
  {cfg \in Paginations :
     /\ cfg.type # "page"
     /\ cfg.resultsPath = "items"
     /\ cfg.type = "cursor" => cfg.nextCursorPath = "next"}

(* the retry policies the conditional validations are run with *)
ValidatedRetries == {NoRetry} \cup PagedRetries

(* conditionalRequest.ifBodyContains, the empty text when it is absent *)
BodyNeedles == {<<>>, <<"1">>}

(* conditionalRequest.ifHeaderExists, the empty string when it is absent *)
HeaderNeedles == {"", "etag"}

(* the header names a response carries, as far as ifHeaderExists asks *)
HeaderSets == {{}, {"etag"}}

(* intervalMs: z.number().default(5000) *)
DefaultIntervalMs == 5000
(* timeoutMs: z.number().default(60000) *)
DefaultTimeoutMs == 60000

NoPolling ==
  [present |-> FALSE, enabled |-> FALSE, intervalMs |-> DefaultIntervalMs,
   timeoutMs |-> DefaultTimeoutMs]

(* polling.timeoutMs: none, and room for one, two or three polls *)
TimeoutsMs == {-1, 0, DefaultIntervalMs + 1, 2 * DefaultIntervalMs + 1}

Pollings ==
  [present : {TRUE}, enabled : {TRUE}, intervalMs : {DefaultIntervalMs},
   timeoutMs : TimeoutsMs]


Methods == {"GET", "POST"}

(* ['POST', 'PUT', 'PATCH'] *)
BodyMethods == {"POST", "PUT", "PATCH"}

SingleInputs ==
  [retry : {NoRetry} \cup EnabledRetries \cup DisabledRetries,
   pagination : {NoPagination,
                 [NoPagination EXCEPT !.present = TRUE, !.maxPages = 1]},
   responseType : {"json"}, ifStatusEquals : {0}, ifBodyContains : {<<>>},
   ifHeaderExists : {""}, polling : {NoPolling},
   method : {"GET"}, body : {NoBody}]
    \cup
  [retry : {NoRetry}, pagination : {NoPagination},
   responseType : {"json", "text"}, ifStatusEquals : {0, 200}, ifBodyContains : {<<>>},
   ifHeaderExists : {""},
   polling : {NoPolling}, method : {"GET"}, body : {NoBody}]
    \cup
  [retry : {NoRetry}, pagination : {NoPagination},
   responseType : {"json"}, ifStatusEquals : {0}, ifBodyContains : {<<>>},
   ifHeaderExists : {""},
   polling : {NoPolling}, method : Methods, body : Bodies]
    \cup
  [retry : ValidatedRetries, pagination : {NoPagination},
   responseType : {"json"}, ifStatusEquals : {0, 200},
   ifBodyContains : BodyNeedles, ifHeaderExists : HeaderNeedles,
   polling : {NoPolling}, method : {"GET"}, body : {NoBody}]

PagedInputs ==
  [retry : {NoRetry}, pagination : Paginations,
   responseType : {"json"}, ifStatusEquals : {0}, ifBodyContains : {<<>>},
   ifHeaderExists : {""}, polling : {NoPolling},
   method : {"GET"}, body : {NoBody}]
    \cup
  [retry : PagedRetries, pagination : RetriedPaginations,
   responseType : {"json"}, ifStatusEquals : {0}, ifBodyContains : {<<>>},
   ifHeaderExists : {""}, polling : {NoPolling},
   method : {"GET"}, body : {NoBody}]

(* inputs of http:backstage:request:advanced *)
Inputs == SingleInputs \cup PagedInputs

(* inputs of http:advanced:request *)
PollingInputs ==
  [retry : {NoRetry}, pagination : {NoPagination}, responseType : {"json"},
   ifStatusEquals : {0}, ifBodyContains : {<<>>},
   ifHeaderExists : {""},
   polling : {NoPolling, [NoPolling EXCEPT !.present = TRUE]} \cup Pollings,
   method : {"GET"}, body : {NoBody}]
    \cup
  [retry : {NoRetry}, pagination : {NoPagination}, responseType : {"json"},
   ifStatusEquals : {0}, ifBodyContains : {<<>>},
   ifHeaderExists : {""}, polling : {NoPolling},
   method : Methods, body : RwrBodies]

(***************************************************************************)
(* The webhook plugin: its configuration and the requests it is sent.      *)
(* A string is the sequence of its characters.                             *)
(***************************************************************************)
Absent == [t |-> "undefined", chars |-> <<>>]
Text(str) == [t |-> "string", chars |-> str]

(* the truthiness of a string or of undefined *)
IsSet(v) == v.t = "string" /\ v.chars # <<>>

(* a || b *)
Or(a, b) == IF IsSet(a) THEN a ELSE b

(* str.startsWith(word) *)
HasPrefix(str, word) ==
  Len(word) <= Len(str) /\ SubSeq(str, 1, Len(word)) = word

BearerPrefix == <<"B", "e", "a", "r", "e", "r", " ">>
UserPrefix == <<"u", "s", "e", "r", ":">>
GroupPrefix == <<"g", "r", "o", "u", "p", ":">>
DefaultNamespace == <<"d", "e", "f", "a", "u", "l", "t", "/">>

(* config.getOptionalString('webhook.token'): undefined, or a string that  *)
(* is not empty                                                            *)
WebhookTokens == {Absent, Text(<<"t", "1">>)}

(* req.headers.authorization *)
AuthHeaders ==
  {Absent,
   Text(BearerPrefix \o <<"t", "1">>),
   Text(BearerPrefix \o <<"t", "2">>),
   Text(BearerPrefix \o <<"t", "1", " ">>),
   Text(<<"b", "e", "a", "r", "e", "r", " ", "t", "1">>),
   Text(<<"t", "1">>),
   Text(<<>>)}

(* req.body as express.json() hands it on, as far as resolveRecipient      *)
(* looks into it                                                           *)
Payloads ==
  [recipient : {Absent, Text(<<>>), Text(<<"a">>),
                Text(UserPrefix \o <<"x">>)},
   backstage_user : {Absent},
   user : {Absent, Text(<<"a">>)},
   username : {Absent},
   group : {Absent, Text(<<"o">>)}]

NoPayload ==
  [recipient |-> Absent, backstage_user |-> Absent, user |-> Absent,
   username |-> Absent, group |-> Absent]

Requests == [authorization : AuthHeaders, payload : Payloads]

NoRequest == [authorization |-> Absent, payload |-> NoPayload]

VARIABLES
  actionId,            \* the action that is invoked
  input,               \* ctx.input
  pc,                  \* where the handler is suspended
  attempt,             \* makeRequestWithRetry, requestWithRetries: attempt
  retryCount,          \* makeRequestWithRetry: retryCount
  totalRetryDelay,     \* makeRequestWithRetry: totalRetryDelay;
                       \* requestWithRetries: totalRetryMs
  lastError,           \* makeRequestWithRetry, requestWithRetries: lastError
  response,            \* the response the last fetch returned
  results,             \* handlePagination: results
  page,                \* handlePagination: page
  hasMore,             \* handlePagination: hasMore
  cursor,              \* handlePagination: cursor
  paginatedUrl,        \* handlePagination: query parameters of the page request
  handlerRetryCount,   \* handler: retryCount
  handlerRetryDelayMs, \* handler: retryDelayMs (totalRetryMs)
  emitted,             \* the values passed to ctx.output, in order
  thrown,              \* the error the handler rejected with
  issued,              \* fetch calls of the current call of the retry loop
  sleeps,              \* delays passed to sleep by the current call
  outcomes,            \* how each fetch of the current call ended
  pageRequests,        \* calls of makeRequestWithRetry by handlePagination
  pageLog,             \* the page results handlePagination extracted
  allSleeps,           \* delays passed to sleep since the handler was entered
  now,                 \* Date.now()
  startTime,           \* handler: startTime
  requestBody,         \* handler: requestOptions.body
  pollResponseData,    \* http:advanced:request handler: responseData
  pollLog,             \* what each call of requestWithRetries returned
  webhookToken,        \* webhook plugin: the webhook.token of the configuration
  request,             \* webhook plugin: the request that is handled
  reply,               \* webhook plugin: the status the request is answered
  notifications        \* webhook plugin: the calls of createNotification

vars ==
  <<actionId, input, pc, attempt, retryCount, totalRetryDelay, lastError,
    response,
    results, page, hasMore, cursor, paginatedUrl, handlerRetryCount,
    handlerRetryDelayMs, emitted, thrown, issued, sleeps, outcomes,
    pageRequests, pageLog, allSleeps, now, startTime, requestBody,
    pollResponseData, pollLog, webhookToken, request, reply, notifications>>

retryVars == <<attempt, retryCount, totalRetryDelay, lastError>>
pageVars == <<results, page, hasMore, cursor>>
handlerVars == <<handlerRetryCount, handlerRetryDelayMs>>
webhookVars == <<webhookToken, request, reply, notifications>>

NotThrown == [raised |-> FALSE, prefix |-> "", message |-> ""]
NoResponse == [status |-> 0, statusText |-> "", ok |-> FALSE, headers |-> {}]
NoUrl == [offset |-> -1, limit |-> -1, page |-> -1, cursor |-> ""]
NoRequestBody == [present |-> FALSE, text |-> <<>>]

(* the variables of a handler before it is entered *)
HandlerIdle ==
  /\ pc = "start"
  /\ attempt = 0
  /\ retryCount = 0
  /\ totalRetryDelay = 0
  /\ lastError = NoError
  /\ response = NoResponse
  /\ results = <<>>
  /\ page = 1
  /\ hasMore = TRUE
  /\ cursor = Undefined
  /\ paginatedUrl = NoUrl
  /\ handlerRetryCount = 0
  /\ handlerRetryDelayMs = 0
  /\ emitted = <<>>
  /\ thrown = NotThrown
  /\ issued = 0
  /\ sleeps = <<>>
  /\ outcomes = <<>>
  /\ pageRequests = 0
  /\ pageLog = <<>>
  /\ allSleeps = <<>>
  /\ now = 0
  /\ startTime = 0
  /\ requestBody = NoRequestBody
  /\ pollResponseData = Undefined
  /\ pollLog = <<>>

(* the variables of the webhook plugin while no request is handled *)
WebhookIdle ==
  /\ webhookToken = Absent
  /\ request = NoRequest
  /\ reply = 0
  /\ notifications = <<>>

Init ==
  /\ \/ actionId = AdvancedAction /\ input \in Inputs
     \/ actionId = PollingAction /\ input \in PollingInputs
  /\ HandlerIdle
  /\ WebhookIdle

(***************************************************************************)
(* Helper functions of the action.                                         *)
(***************************************************************************)
RECURSIVE Pow2(_)
Pow2(n) == IF n <= 0 THEN 1 ELSE 2 * Pow2(n - 1)

(* the exponent taken from the attempt number instead of the retry index *)
getRetryDelay_FromZero(att, baseDelay, exponential) ==
  IF exponential THEN baseDelay * Pow2(att) ELSE baseDelay

getRetryDelay(att, baseDelay, exponential) ==
  IF exponential THEN baseDelay * Pow2(att - 1) ELSE baseDelay

(* no retry at all when the list of retryable statuses is empty *)
MaxRetriesOf_NeedsStatuses(retryConfig) ==
  IF retryConfig.enabled /\ retryConfig.retryOn # {}
  THEN retryConfig.maxRetries ELSE 0

(* retryConfig?.enabled ? retryConfig.maxRetries : 0 *)
MaxRetriesOf(retryConfig) ==
  IF retryConfig.enabled THEN retryConfig.maxRetries ELSE 0

(* retryConfig.retryDelay || 1000 *)
BaseDelayOf(retryConfig) ==
  IF retryConfig.retryDelay = 0 THEN DefaultRetryDelay
  ELSE retryConfig.retryDelay

maxRetries == MaxRetriesOf(input.retry)

Paged == input.pagination.present /\ input.pagination.enabled

ResponseOf(s) ==
  [status |-> s, statusText |-> StatusText(s), ok |-> (s >= 200 /\ s < 300),
   headers |-> {}]

(* the failure of a page swallowed and the loop of the pages resumed *)
HandlerCatch_SkipPage(message) ==
  /\ thrown' = [raised |-> TRUE, prefix |-> "HTTP request failed: ",
                message |-> message]
  /\ pc' = IF Paged /\ pc = "fetch" THEN "pageLoop" ELSE "failed"

(***************************************************************************)
(* The catch clause of the handler: every error of the try block is        *)
(* rethrown with a prefix; nothing is passed to output.                    *)
(***************************************************************************)
HandlerCatch(message) ==
  /\ thrown' = [raised |-> TRUE, prefix |-> "HTTP request failed: ",
                message |-> message]
  /\ pc' = "failed"

(***************************************************************************)
(* structuredOutput, and the call of output.                               *)
(***************************************************************************)
(* the subtraction taken the wrong way round *)
DurationOf_Reversed(start, end) == start - end

(* Date.now() - startTime *)
DurationOf(start, end) == end - start

(* summary.success of structuredOutput *)
SuccessOf(resp) == TRUE

StructuredOutput(resp, responseData, pagesProcessed, totalRecords) ==
  [summary |-> [success |-> SuccessOf(resp), status |-> resp.status,
                statusText |-> IF resp.statusText = "" THEN "OK"
                               ELSE resp.statusText,
                durationMs |-> DurationOf(startTime, now),
                retries |-> IF handlerRetryCount > 0 THEN handlerRetryCount
                            ELSE -1],
   data |-> responseData,
   metrics |-> [totalDurationMs |-> DurationOf(startTime, now),
                retryCount |-> handlerRetryCount,
                retryDelaysTotalMs |-> handlerRetryDelayMs,
                pagesProcessed |-> pagesProcessed,
                totalRecords |-> totalRecords]]

(* the characters of the strings a response body holds *)
CharsOf(str) ==
  CASE str = "text" -> <<"t", "e", "x", "t">>
    [] str = "c1" -> <<"c", "1">>
    [] str = "c2" -> <<"c", "2">>
    [] OTHER -> <<>>

RECURSIVE ElementsText(_)
(* the elements of an array of k numbers 1, comma separated *)
ElementsText(k) ==
  IF k = 0 THEN <<>>
  ELSE <<"1">> \o (IF k > 1 THEN <<",">> ELSE <<>>) \o ElementsText(k - 1)

(* JSON.stringify of a value of a response body *)
ValueText(v) ==
  CASE v.t = "array" -> <<"[">> \o ElementsText(v.n) \o <<"]">>
    [] v.t = "number" -> <<Digits[v.n + 1]>>
    [] v.t = "string" -> StringifyString(CharsOf(v.s))
    [] OTHER -> <<>>

(* JSON.stringify(responseData); a member that is undefined is left out *)
ResponseDataText(data) ==
  IF data.t # "object" THEN ValueText(data)
  ELSE LET it == data.fields.items
           nx == data.fields.next
       IN <<"{">>
            \o (IF it.t = "undefined" THEN <<>>
                ELSE StringifyString(<<"i", "t", "e", "m", "s">>) \o <<":">>
                       \o ValueText(it))
            \o (IF it.t # "undefined" /\ nx.t # "undefined" THEN <<",">>
                ELSE <<>>)
            \o (IF nx.t = "undefined" THEN <<>>
                ELSE StringifyString(<<"n", "e", "x", "t">>) \o <<":">>
                       \o ValueText(nx))
            \o <<"}">>

(* text.includes(needle) *)
Includes(text, needle) ==
  \E i \in 0..(Len(text) - Len(needle)) :
     SubSeq(text, i + 1, i + Len(needle)) = needle

NoValidationError == ""
StatusMismatch == "Expected status"
BodyMismatch == "Response body does not contain"
HeaderMissing == "Response missing required header"
ValidationErrors == {StatusMismatch, BodyMismatch, HeaderMissing}

(* the conditional validation that looks at the status alone *)
ValidationError_StatusOnly(resp, responseData) ==
  IF input.ifStatusEquals # 0 /\ resp.status # input.ifStatusEquals
  THEN StatusMismatch
  ELSE NoValidationError

(* the conditional validation: the message of the first check that fails *)
ValidationError(resp, responseData) ==
  IF input.ifStatusEquals # 0 /\ resp.status # input.ifStatusEquals
  THEN StatusMismatch
  ELSE IF /\ input.ifBodyContains # <<>>
          /\ ~Includes(ResponseDataText(responseData), input.ifBodyContains)
  THEN BodyMismatch
  ELSE IF /\ input.ifHeaderExists # ""
          /\ input.ifHeaderExists \notin resp.headers
  THEN HeaderMissing
  ELSE NoValidationError

(* the result passed to output without leaving the step that built it *)
ValidateAndEmit_StayInPlace(resp, responseData, pagesProcessed, totalRecords) ==
  IF ValidationError(resp, responseData) # NoValidationError
  THEN /\ HandlerCatch(ValidationError(resp, responseData))
       /\ UNCHANGED emitted
  ELSE /\ emitted' = Append(emitted,
            StructuredOutput(resp, responseData, pagesProcessed, totalRecords))
       /\ pc' = pc
       /\ UNCHANGED thrown

(* conditional validation, then output(outputKey, structuredOutput) *)
ValidateAndEmit(resp, responseData, pagesProcessed, totalRecords) ==
  IF ValidationError(resp, responseData) # NoValidationError
  THEN /\ HandlerCatch(ValidationError(resp, responseData))
       /\ UNCHANGED emitted
  ELSE /\ emitted' = Append(emitted,
            StructuredOutput(resp, responseData, pagesProcessed, totalRecords))
       /\ pc' = "done"
       /\ UNCHANGED thrown

(***************************************************************************)
(* makeRequestWithRetry.                                                   *)
(***************************************************************************)
(* the head of the for loop: the next fetch is issued, or the loop ends *)
LoopHead(att) ==
  IF att <= maxRetries
  THEN /\ pc' = "fetch"
       /\ issued' = issued + 1
       /\ UNCHANGED <<thrown>>
  ELSE /\ HandlerCatch(IF lastError # NoError THEN lastError
                       ELSE ExhaustedError)
       /\ UNCHANGED issued

(* the counter started at one, counting attempts instead of retries *)
CallMakeRequestWithRetry_CountFromOne ==
  /\ attempt' = 0
  /\ retryCount' = 1
  /\ totalRetryDelay' = 0
  /\ lastError' = NoError
  /\ sleeps' = <<>>
  /\ UNCHANGED allSleeps
  /\ outcomes' = <<>>
  /\ IF 0 <= maxRetries
     THEN /\ pc' = "fetch"
          /\ issued' = 1
          /\ UNCHANGED thrown
     ELSE /\ HandlerCatch(ExhaustedError)
          /\ issued' = 0

(* the call: the locals are initialised and the first attempt is issued *)
CallMakeRequestWithRetry ==
  /\ attempt' = 0
  /\ retryCount' = 0
  /\ totalRetryDelay' = 0
  /\ lastError' = NoError
  /\ sleeps' = <<>>
  /\ UNCHANGED allSleeps
  /\ outcomes' = <<>>
  /\ IF 0 <= maxRetries
     THEN /\ pc' = "fetch"
          /\ issued' = 1
          /\ UNCHANGED thrown
     ELSE /\ HandlerCatch(ExhaustedError)
          /\ issued' = 0

(* the try arm retrying a retryable status without a look at the bound *)
ShouldRetryOnStatus_NoBound(att, s) ==
  /\ input.retry.enabled
  /\ s \in input.retry.retryOn

(* the try arm retrying once more than the bound allows *)
ShouldRetryOnStatus_Inclusive(att, s) ==
  /\ input.retry.enabled
  /\ att <= maxRetries
  /\ s \in input.retry.retryOn

(* the test of the try arm: retry on this status? *)
ShouldRetryOnStatus(att, s) ==
  /\ input.retry.enabled
  /\ att < maxRetries
  /\ s \in input.retry.retryOn

(* the catch arm retrying once more than the bound allows *)
ShouldRetryOnError_Inclusive(att) ==
  att <= maxRetries /\ input.retry.enabled

(* the test of the catch arm: retry after this failure? *)
ShouldRetryOnError(att) ==
  att < maxRetries /\ input.retry.enabled

(* the first failure kept instead of the last *)
CaughtError_KeepFirst(previous, error) ==
  IF previous = NoError THEN error ELSE previous

(* lastError = error *)
CaughtError(previous, error) == error

(* the delay assigned instead of accumulated *)
RetryAfter_Overwrite(delay) ==
  /\ retryCount' = retryCount + 1
  /\ totalRetryDelay' = delay
  /\ sleeps' = Append(sleeps, delay)
  /\ allSleeps' = Append(allSleeps, delay)
  /\ pc' = "sleep"

(* the retry branch of either arm: count, accumulate, sleep *)
RetryAfter(delay) ==
  /\ retryCount' = retryCount + 1
  /\ totalRetryDelay' = totalRetryDelay + delay
  /\ sleeps' = Append(sleeps, delay)
  /\ allSleeps' = Append(allSleeps, delay)
  /\ pc' = "sleep"

(* fetch resolved with a response of status s; its headers are told apart *)
(* only where the input asks for one                                      *)
FetchReturns(s) ==
  /\ pc = "fetch"
  /\ \E latency \in FetchLatencies : now' = now + latency
  /\ \E h \in (IF input.ifHeaderExists = "" THEN {{}} ELSE HeaderSets) :
       response' = [ResponseOf(s) EXCEPT !.headers = h]
  /\ outcomes' = Append(outcomes, [kind |-> "response", status |-> s,
                                   message |-> ""])
  /\ IF ShouldRetryOnStatus(attempt, s)
     THEN /\ RetryAfter(getRetryDelay(attempt + 1, BaseDelayOf(input.retry),
                                      input.retry.exponentialBackoff))
          /\ UNCHANGED <<handlerVars>>
     ELSE /\ IF Paged
             THEN /\ pc' = "pageDecode"
                  /\ UNCHANGED handlerVars
             ELSE /\ pc' = "parse"
                  /\ handlerRetryCount' = retryCount
                  /\ handlerRetryDelayMs' = totalRetryDelay
          /\ UNCHANGED <<retryCount, totalRetryDelay, sleeps, allSleeps>>
  /\ UNCHANGED <<actionId, input, webhookVars, pollResponseData, pollLog, requestBody, startTime, attempt, lastError,
                 pageVars, paginatedUrl, emitted, thrown, issued,
                 pageRequests, pageLog>>

(* fetch rejected: a network error, or the abort of the timeout *)
FetchThrows(e) ==
  /\ pc = "fetch"
  /\ \E latency \in FetchLatencies : now' = now + latency
  /\ lastError' = CaughtError(lastError, e)
  /\ outcomes' = Append(outcomes, [kind |-> "error", status |-> 0,
                                   message |-> e])
  /\ IF ShouldRetryOnError(attempt)
     THEN /\ RetryAfter(getRetryDelay(attempt + 1, BaseDelayOf(input.retry),
                                      input.retry.exponentialBackoff))
          /\ UNCHANGED thrown
     ELSE /\ HandlerCatch(lastError')
          /\ UNCHANGED <<retryCount, totalRetryDelay, sleeps, allSleeps>>
  /\ UNCHANGED <<actionId, input, webhookVars, pollResponseData, pollLog, requestBody, startTime, attempt, response,
                 pageVars, paginatedUrl, handlerVars, emitted, issued,
                 pageRequests, pageLog>>

(* the sleep is over: attempt++ and back to the head of the loop *)
SleepDone ==
  /\ pc = "sleep"
  /\ \E late \in SleepOvershoots : now' = now + sleeps[Len(sleeps)] + late
  /\ attempt' = attempt + 1
  /\ LoopHead(attempt + 1)
  /\ UNCHANGED <<actionId, input, webhookVars, pollResponseData, pollLog, requestBody, startTime, retryCount,
                 totalRetryDelay, lastError, response, pageVars, paginatedUrl,
                 handlerVars, emitted, sleeps, allSleeps, outcomes,
                 pageRequests, pageLog>>


(***************************************************************************)
(* handlePagination.                                                       *)
(***************************************************************************)
(* the offset and the page number counted from the page after *)
PageUrl_OneAhead(cfg, pg, cur) ==
  CASE cfg.type = "offset" ->
         [NoUrl EXCEPT !.offset = pg * OffsetPageSize,
                       !.limit = OffsetPageSize]
    [] cfg.type = "page" -> [NoUrl EXCEPT !.page = pg + 1]
    [] cfg.type = "cursor" ->
         IF Truthy(cur) THEN [NoUrl EXCEPT !.cursor = cur.s] ELSE NoUrl

(* the query parameters the switch on paginationConfig.type sets *)
PageUrl(cfg, pg, cur) ==
  CASE cfg.type = "offset" ->
         [NoUrl EXCEPT !.offset = (pg - 1) * OffsetPageSize,
                       !.limit = OffsetPageSize]
    [] cfg.type = "page" -> [NoUrl EXCEPT !.page = pg]
    [] cfg.type = "cursor" ->
         IF Truthy(cur) THEN [NoUrl EXCEPT !.cursor = cur.s] ELSE NoUrl

(* an array pushed as one element, without the spread *)
Pushed_Nested(pageResults, pg) ==
  <<[page |-> pg, idx |-> 0, t |-> pageResults.t]>>

(* what results.push appends for the page results of page pg *)
Pushed(pageResults, pg) ==
  IF IsArray(pageResults)
  THEN [i \in 1..pageResults.n |-> [page |-> pg, idx |-> i, t |-> "item"]]
  ELSE <<[page |-> pg, idx |-> 0, t |-> pageResults.t]>>

PageResultsOf(cfg, data) ==
  IF cfg.resultsPath # "" THEN getValueByPath(data, cfg.resultsPath) ELSE data

(* the cursor read for every cursor pagination, configured path or not *)
ReadsCursor_AnyPath(cfg) == cfg.type = "cursor"

(* paginationConfig.type === 'cursor' && paginationConfig.nextCursorPath *)
ReadsCursor(cfg) == cfg.type = "cursor" /\ cfg.nextCursorPath # ""

(* the cap tested one page too late *)
WhileCondition_OffByOne(more, pg, cfg) == more /\ pg <= cfg.maxPages + 1

(* the condition of the while loop *)
WhileCondition(more, pg, cfg) == more /\ pg <= cfg.maxPages

(* the page counter returned without the final decrement *)
PagesProcessedOf_NoDecrement(pg) == pg

(* pagesProcessed of the value handlePagination returns *)
PagesProcessedOf(pg) == pg - 1

(* the response of the last page kept instead of the mock *)
MockResponse_LastPage == response

(* the mock response the handler builds for a paginated run *)
MockResponse ==
  [status |-> MockStatus, statusText |-> "OK", ok |-> TRUE, headers |-> {}]

(* the test of the while loop: the next page is requested, or             *)
(* handlePagination returns and the handler emits its result              *)
PageLoop ==
  /\ pc = "pageLoop"
  /\ IF WhileCondition(hasMore, page, input.pagination)
     THEN /\ paginatedUrl' = PageUrl(input.pagination, page, cursor)
          /\ pageRequests' = pageRequests + 1
          /\ CallMakeRequestWithRetry
          /\ UNCHANGED <<emitted, response>>
     ELSE /\ response' = MockResponse
          /\ ValidateAndEmit(response', results, PagesProcessedOf(page),
                          Len(results))
          /\ UNCHANGED <<paginatedUrl, pageRequests, retryVars, issued,
                         sleeps, allSleeps, outcomes>>
  /\ UNCHANGED <<actionId, input, webhookVars, pollResponseData, pollLog, requestBody, now, startTime, pageVars,
                 handlerVars, pageLog>>

(* response.json() of a page resolved or rejected; the page is aggregated *)
PageDecode(data) ==
  /\ pc = "pageDecode"
  /\ IF data.t = "invalid"
     THEN /\ HandlerCatch(DecodeError)
          /\ UNCHANGED <<pageVars, pageLog>>
     ELSE LET cfg == input.pagination
              pageResults == PageResultsOf(cfg, data)
          IN /\ results' = results \o Pushed(pageResults, page)
             /\ pageLog' = Append(pageLog, [pageResults |-> pageResults,
                                             data |-> data])
             /\ IF ReadsCursor(cfg)
                THEN /\ cursor' = getValueByPath(data, cfg.nextCursorPath)
                     /\ hasMore' = Truthy(cursor')
                ELSE /\ hasMore' = (IsArray(pageResults) /\ pageResults.n > 0)
                     /\ UNCHANGED cursor
             /\ page' = page + 1
             /\ pc' = "pageLoop"
             /\ UNCHANGED thrown
  /\ UNCHANGED <<actionId, input, webhookVars, pollResponseData, pollLog, requestBody, now, startTime, retryVars,
                 response, paginatedUrl, handlerVars, emitted, issued, sleeps,
                 allSleeps, outcomes, pageRequests>>

(***************************************************************************)
(* The handler.                                                            *)
(***************************************************************************)
(* input.body as a condition: absent and the empty text are falsy *)
BodyGiven(body) ==
  body.t # "none" /\ ~(body.t = "text" /\ body.chars = <<>>)

(* requestOptions.body *)
RequestBodyOf(in) ==
  IF BodyGiven(in.body) /\ in.method \in BodyMethods
  THEN [present |-> TRUE,
        text |-> IF in.body.t = "text" THEN in.body.chars
                 ELSE JsonStringify(in.body)]
  ELSE NoRequestBody

(* from the entry to the first await *)
HandlerStart ==
  /\ pc = "start"
  /\ startTime' = now
  /\ requestBody' = RequestBodyOf(input)
  /\ actionId = AdvancedAction
  /\ IF Paged
     THEN /\ pc' = "pageLoop"
          /\ UNCHANGED <<retryVars, issued, sleeps, allSleeps, outcomes,
                         thrown>>
     ELSE CallMakeRequestWithRetry
  /\ UNCHANGED <<actionId, input, webhookVars, pollResponseData, pollLog, now, response, pageVars, paginatedUrl,
                 handlerVars, emitted, pageRequests, pageLog>>

(* single request: the body is read, validated and the result is emitted *)
ParseResponse(data) ==
  /\ pc = "parse"
  /\ IF input.responseType = "json" /\ data.t = "invalid"
     THEN /\ HandlerCatch(DecodeError)
          /\ UNCHANGED emitted
     ELSE ValidateAndEmit(response,
            IF input.responseType = "json" THEN data ELSE StringValue("text"),
            -1, -1)
  /\ UNCHANGED <<actionId, input, webhookVars, pollResponseData, pollLog, requestBody, now, startTime, retryVars,
                 response, pageVars, paginatedUrl, handlerVars, issued,
                 sleeps, allSleeps, outcomes, pageRequests, pageLog>>

(***************************************************************************)
(* http:advanced:request: requestWithRetries and its handler.              *)
(***************************************************************************)
(* requestOptions.body of http:advanced:request *)
RwrRequestBodyOf(in) ==
  IF in.method \in BodyMethods /\ BodyGiven(in.body)
  THEN [present |-> TRUE, text |-> JsonStringify(in.body)]
  ELSE NoRequestBody

(* 500 * 2 ** attempt *)
RwrDelay(att) == RwrBaseDelay * Pow2(att)

(* the sleep started but not awaited: the next fetch goes out at once *)
RwrRetry_NoAwait ==
  /\ totalRetryDelay' = totalRetryDelay + RwrDelay(attempt)
  /\ attempt' = attempt + 1
  /\ sleeps' = Append(sleeps, RwrDelay(attempt))
  /\ allSleeps' = Append(allSleeps, RwrDelay(attempt))
  /\ pc' = "rwrFetch"

(* the retry branch of either arm: accumulate, attempt++, sleep *)
RwrRetry ==
  /\ totalRetryDelay' = totalRetryDelay + RwrDelay(attempt)
  /\ attempt' = attempt + 1
  /\ sleeps' = Append(sleeps, RwrDelay(attempt))
  /\ allSleeps' = Append(allSleeps, RwrDelay(attempt))
  /\ pc' = "rwrSleep"

(* structuredOutput of http:advanced:request, built at time t *)
PollingOutputAt(t, responseStatus, data) ==
  [summary |-> [success |-> (responseStatus >= 200 /\ responseStatus < 300),
                status |-> responseStatus,
                retries |-> handlerRetryCount,
                durationMs |-> DurationOf(startTime, t)],
   data |-> data,
   metrics |-> [retryCount |-> handlerRetryCount,
                totalRetryMs |-> handlerRetryDelayMs]]

PollingOutput(responseStatus, data) ==
  PollingOutputAt(now, responseStatus, data)

(* Date.now() + (input.polling.timeoutMs ?? 60000), read in the stretch of *)
(* synchronous code that read startTime                                    *)
endTime == startTime + input.polling.timeoutMs

(* the loop sleeping after every poll, an ok one too *)
PollsAgain_Always(resp) == input.polling.enabled

(* polling is enabled and the break of `if (response.ok)` is not taken *)
PollsAgain(resp) == input.polling.enabled /\ ~resp.ok

(* a call of requestWithRetries, up to its first fetch *)
CallRequestWithRetries ==
  /\ attempt' = 0
  /\ lastError' = NoError
  /\ totalRetryDelay' = 0
  /\ sleeps' = <<>>
  /\ outcomes' = <<>>
  /\ IF 0 <= DEFAULT_RETRIES
     THEN /\ pc' = "rwrFetch"
          /\ issued' = 1
          /\ UNCHANGED thrown
     ELSE /\ HandlerCatch(ExhaustedError)
          /\ issued' = 0

(* from the entry of the handler to the first fetch of requestWithRetries *)
PollingStart ==
  /\ pc = "start"
  /\ startTime' = now
  /\ requestBody' = RwrRequestBodyOf(input)
  /\ actionId = PollingAction
  /\ CallRequestWithRetries
  /\ UNCHANGED allSleeps
  /\ UNCHANGED <<actionId, input, webhookVars, pollResponseData, pollLog, now, retryCount, response, pageVars,
                 paginatedUrl, handlerVars, emitted, pageRequests, pageLog>>

(* fetch resolved with a response of status s *)
RwrFetchReturns(s) ==
  /\ pc = "rwrFetch"
  /\ \E latency \in FetchLatencies : now' = now + latency
  /\ response' = ResponseOf(s)
  /\ outcomes' = Append(outcomes, [kind |-> "response", status |-> s,
                                   message |-> ""])
  /\ IF s \in RETRY_STATUSES /\ attempt < DEFAULT_RETRIES
     THEN /\ RwrRetry
          /\ UNCHANGED <<handlerVars, pollLog>>
     ELSE /\ pc' = "rwrParse"
          /\ handlerRetryCount' = attempt
          /\ handlerRetryDelayMs' = totalRetryDelay
          /\ pollLog' = Append(pollLog, [status |-> s, retries |-> attempt,
                                         totalRetryMs |-> totalRetryDelay])
          /\ UNCHANGED <<attempt, totalRetryDelay, sleeps, allSleeps>>
  /\ UNCHANGED <<actionId, input, webhookVars, pollResponseData, requestBody, startTime, retryCount,
                 lastError, pageVars, paginatedUrl, emitted, thrown, issued,
                 pageRequests, pageLog>>

(* fetch rejected *)
RwrFetchThrows(e) ==
  /\ pc = "rwrFetch"
  /\ \E latency \in FetchLatencies : now' = now + latency
  /\ lastError' = e
  /\ outcomes' = Append(outcomes, [kind |-> "error", status |-> 0,
                                   message |-> e])
  /\ IF attempt < DEFAULT_RETRIES
     THEN /\ RwrRetry
          /\ UNCHANGED thrown
     ELSE /\ HandlerCatch(lastError')
          /\ UNCHANGED <<attempt, totalRetryDelay, sleeps, allSleeps>>
  /\ UNCHANGED <<actionId, input, webhookVars, pollResponseData, pollLog, requestBody, startTime, retryCount,
                 response, pageVars, paginatedUrl, handlerVars, emitted,
                 issued, pageRequests, pageLog>>

(* the sleep is over: back to the test of the while loop *)
RwrSleepDone ==
  /\ pc = "rwrSleep"
  /\ \E late \in SleepOvershoots : now' = now + sleeps[Len(sleeps)] + late
  /\ IF attempt <= DEFAULT_RETRIES
     THEN /\ pc' = "rwrFetch"
          /\ issued' = issued + 1
          /\ UNCHANGED thrown
     ELSE /\ HandlerCatch(IF lastError # NoError THEN lastError
                          ELSE ExhaustedError)
          /\ UNCHANGED issued
  /\ UNCHANGED <<actionId, input, webhookVars, pollResponseData, pollLog, requestBody, startTime, retryVars, response,
                 pageVars, paginatedUrl, handlerVars, emitted, sleeps,
                 allSleeps, outcomes, pageRequests, pageLog>>

(* response.json() resolved or rejected; the result is emitted, or the    *)
(* polling loop sleeps before it looks at the clock                       *)
PollingParse(data) ==
  /\ pc = "rwrParse"
  /\ IF data.t = "invalid"
     THEN /\ HandlerCatch(DecodeError)
          /\ UNCHANGED <<emitted, pollResponseData, allSleeps>>
     ELSE /\ pollResponseData' = data
          /\ IF PollsAgain(response)
             THEN /\ pc' = "pollSleep"
                  /\ allSleeps' = Append(allSleeps, input.polling.intervalMs)
                  /\ UNCHANGED <<emitted, thrown>>
             ELSE /\ emitted' = Append(emitted,
                                       PollingOutput(response.status, data))
                  /\ pc' = "done"
                  /\ UNCHANGED <<thrown, allSleeps>>
  /\ UNCHANGED <<actionId, input, webhookVars, pollLog, requestBody, now, startTime,
                 retryVars, response, pageVars, paginatedUrl, handlerVars,
                 issued, sleeps, outcomes, pageRequests, pageLog>>

(* the sleep of the polling loop is over: `while (Date.now() < endTime)`, *)
(* then the next poll or the result of the last one                       *)
PollSleepDone ==
  /\ pc = "pollSleep"
  /\ \E late \in SleepOvershoots :
       now' = now + input.polling.intervalMs + late
  /\ IF now' < endTime
     THEN /\ CallRequestWithRetries
          /\ UNCHANGED emitted
     ELSE /\ emitted' = Append(emitted,
                 PollingOutputAt(now', response.status, pollResponseData))
          /\ pc' = "done"
          /\ UNCHANGED <<thrown, attempt, lastError, totalRetryDelay, sleeps,
                         outcomes, issued>>
  /\ UNCHANGED <<actionId, input, webhookVars, pollResponseData, pollLog, requestBody,
                 startTime, retryCount, response, pageVars, paginatedUrl,
                 handlerVars, allSleeps, pageRequests, pageLog>>

Next ==
  \/ HandlerStart
  \/ \E s \in Statuses : FetchReturns(s)
  \/ \E e \in TransportErrors : FetchThrows(e)
  \/ SleepDone
  \/ \E data \in SingleBodies : ParseResponse(data)
  \/ PageLoop
  \/ \E data \in PageBodies : PageDecode(data)
  \/ PollingStart
  \/ \E s \in Statuses : RwrFetchReturns(s)
  \/ \E e \in TransportErrors : RwrFetchThrows(e)
  \/ RwrSleepDone
  \/ \E data \in SingleBodies : PollingParse(data)
  \/ PollSleepDone

Spec == Init /\ [][Next]_vars

(* every promise the handler awaits settles: a fetch resolves or rejects,  *)
(* a timer fires, a body is read, and the continuation then runs           *)
FairSpec == Spec /\ WF_vars(Next)

(***************************************************************************)
(* The webhook plugin: the router of POST /api/webhook.                    *)
(***************************************************************************)
(* an input of the actions, for the runs of the plugin that invoke none *)
IdleInput ==
  [retry |-> NoRetry, pagination |-> NoPagination, responseType |-> "json",
   ifStatusEquals |-> 0, ifBodyContains |-> <<>>, ifHeaderExists |-> "",
   polling |-> NoPolling, method |-> "GET", body |-> NoBody]

WebhookInit ==
  /\ actionId = WebhookPlugin
  /\ input = IdleInput
  /\ HandlerIdle
  /\ webhookToken \in WebhookTokens
  /\ request \in Requests
  /\ reply = 0
  /\ notifications = <<>>

resolveRecipient(payload) ==
  LET raw == Or(payload.recipient,
                Or(payload.backstage_user,
                   Or(payload.user, Or(payload.username, payload.group))))
  IN IF ~IsSet(raw) THEN Absent
     ELSE IF HasPrefix(raw.chars, UserPrefix)
               \/ HasPrefix(raw.chars, GroupPrefix)
     THEN raw
     ELSE IF IsSet(payload.group)
     THEN Text(GroupPrefix \o DefaultNamespace \o raw.chars)
     ELSE Text(UserPrefix \o DefaultNamespace \o raw.chars)

(* the middleware letting through every header that begins with Bearer *)
Authorized_AnyBearer(token, req) ==
  \/ ~IsSet(token)
  \/ /\ req.authorization.t = "string"
     /\ HasPrefix(req.authorization.chars, BearerPrefix)

(* the token middleware calls next() *)
Authorized(token, req) ==
  \/ ~IsSet(token)
  \/ req.authorization = Text(BearerPrefix \o token.chars)

(* the request goes through the middleware and, let through, through the  *)
(* POST handler up to its await of notifications.createNotification       *)
WebhookRequest ==
  /\ actionId = WebhookPlugin
  /\ pc = "start"
  /\ IF ~Authorized(webhookToken, request)
     THEN /\ reply' = 401
          /\ pc' = "replied"
          /\ UNCHANGED notifications
     ELSE IF ~IsSet(resolveRecipient(request.payload))
     THEN /\ reply' = 400
          /\ pc' = "replied"
          /\ UNCHANGED notifications
     ELSE /\ notifications' =
               Append(notifications,
                      [entityRef |-> resolveRecipient(request.payload)])
          /\ pc' = "createNotification"
          /\ UNCHANGED reply
  /\ UNCHANGED <<actionId, input, webhookToken, request, retryVars, response,
                 pageVars, paginatedUrl, handlerVars, emitted, thrown, issued,
                 sleeps, outcomes, pageRequests, pageLog, allSleeps, now,
                 startTime, requestBody, pollResponseData, pollLog>>

(* createNotification resolved: res.status(200) *)
NotificationCreated ==
  /\ pc = "createNotification"
  /\ reply' = 200
  /\ pc' = "replied"
  /\ UNCHANGED <<actionId, input, webhookToken, request, notifications,
                 retryVars, response, pageVars, paginatedUrl, handlerVars,
                 emitted, thrown, issued, sleeps, outcomes, pageRequests,
                 pageLog, allSleeps, now, startTime, requestBody,
                 pollResponseData, pollLog>>

(* createNotification rejected: the catch answers res.status(500) *)
NotificationFailed ==
  /\ pc = "createNotification"
  /\ reply' = 500
  /\ pc' = "replied"
  /\ UNCHANGED <<actionId, input, webhookToken, request, notifications,
                 retryVars, response, pageVars, paginatedUrl, handlerVars,
                 emitted, thrown, issued, sleeps, outcomes, pageRequests,
                 pageLog, allSleeps, now, startTime, requestBody,
                 pollResponseData, pollLog>>

WebhookNext ==
  \/ WebhookRequest
  \/ NotificationCreated
  \/ NotificationFailed

WebhookSpec == WebhookInit /\ [][WebhookNext]_vars

TypeOK ==
  /\ actionId \in {AdvancedAction, PollingAction}
  /\ input \in Inputs \cup PollingInputs
  /\ pc \in {"start", "fetch", "sleep", "parse", "pageLoop", "pageDecode",
             "rwrFetch", "rwrSleep", "rwrParse", "pollSleep", "done",
             "failed"}
  /\ attempt \in 0..(MaxRetriesBound + 1)
  /\ retryCount \in Nat
  /\ totalRetryDelay \in Nat
  /\ Len(emitted) <= 1


(***************************************************************************)
(* Vocabulary of the properties.                                           *)
(***************************************************************************)
Last(seq) == seq[Len(seq)]

Is2xx(status) == status >= 200 /\ status < 300

Advanced == actionId = AdvancedAction

(* the retry policy in force, given or built in *)
PolicyEnabled == IF Advanced THEN input.retry.enabled ELSE TRUE
PolicyMaxRetries ==
  IF Advanced THEN input.retry.maxRetries ELSE DEFAULT_RETRIES
PolicyRetryOn == IF Advanced THEN input.retry.retryOn ELSE RETRY_STATUSES
PolicyExponential ==
  IF Advanced THEN input.retry.exponentialBackoff ELSE TRUE
PolicyBaseDelay ==
  IF ~Advanced THEN 500
  ELSE IF input.retry.retryDelay > 0 THEN input.retry.retryDelay ELSE 1000

(* additional attempts the loop may make *)
RetryBound == IF PolicyEnabled THEN PolicyMaxRetries ELSE 0

(* retries consumed so far by the current call *)
Retries == IF Advanced THEN retryCount ELSE attempt

(* the most recent call of the retry loop has returned or thrown *)
CallEnded ==
  /\ pc \notin {"start", "fetch", "sleep", "rwrFetch", "rwrSleep"}
  /\ outcomes # <<>>

(* the single request of the handler has returned its response *)
SingleReturned == ~Paged /\ pc \in {"parse", "rwrParse", "done"}

AllRetryable ==
  \A i \in DOMAIN outcomes :
    /\ outcomes[i].kind = "response"
    /\ outcomes[i].status \in PolicyRetryOn

AllFailed == \A i \in DOMAIN outcomes : outcomes[i].kind = "error"

(* the backoff formula at retry index i = 0, 1, ... *)
Backoff(i) ==
  IF PolicyExponential THEN PolicyBaseDelay * Pow2(i) ELSE PolicyBaseDelay

RECURSIVE SumBackoff(_)
SumBackoff(k) == IF k <= 0 THEN 0 ELSE SumBackoff(k - 1) + Backoff(k - 1)

(* the total delay a handler reports *)
ReportedDelay(out) ==
  IF Advanced THEN out.metrics.retryDelaysTotalMs
  ELSE out.metrics.totalRetryMs

(***************************************************************************)
(* C1: in single-request mode the emitted summary has success = TRUE       *)
(* exactly when the status of the terminal response is in 200..299.        *)
(***************************************************************************)
C1_SuccessIffFinal2xx ==
  \A i \in DOMAIN emitted :
    ~Paged => (emitted[i].summary.success <=> Is2xx(response.status))

(***************************************************************************)
(* C2: retryCount never exceeds maxRetries, in the loop and in the value   *)
(* returned, and one call issues at most maxRetries + 1 attempts.          *)
(***************************************************************************)
C2_RetryCountBounded ==
  /\ Retries <= RetryBound
  /\ retryCount <= maxRetries
  /\ handlerRetryCount <= RetryBound
  /\ issued <= RetryBound + 1
  /\ Len(outcomes) <= RetryBound + 1
  /\ \A i \in DOMAIN emitted : emitted[i].metrics.retryCount <= RetryBound

C2_Witness ==
  /\ Advanced
  /\ pc = "parse"
  /\ maxRetries >= 2
  /\ handlerRetryCount = maxRetries
  /\ issued = maxRetries + 1
  /\ \E i \in DOMAIN outcomes : outcomes[i].kind = "error"
  /\ \E i \in DOMAIN outcomes : outcomes[i].kind = "response"

(***************************************************************************)
(* C3 as stated: page style, maxPages = 3, ten items on pages 1 and 2 and  *)
(* an empty array on page 3: 20 items are aggregated and pagesProcessed    *)
(* is 2.                                                                   *)
(***************************************************************************)
C3_Scenario ==
  /\ Paged
  /\ input.pagination.type = "page"
  /\ input.pagination.maxPages >= 3
  /\ pc = "done"
  /\ Len(pageLog) = 3
  /\ pageLog[1].pageResults = ArrayOf(BigPage)
  /\ pageLog[2].pageResults = ArrayOf(BigPage)
  /\ pageLog[3].pageResults = ArrayOf(0)

C3_EmptyPageNotCounted ==
  C3_Scenario =>
    /\ Len(emitted[1].data) = 2 * BigPage
    /\ emitted[1].metrics.pagesProcessed = 2

(***************************************************************************)
(* C3 amended: in that scenario 20 items are aggregated, three page        *)
(* requests are made and pagesProcessed is 3: the empty page is counted.   *)
(***************************************************************************)
C3_EmptyPageCounted ==
  C3_Scenario =>
    /\ Len(emitted[1].data) = 2 * BigPage
    /\ emitted[1].metrics.totalRecords = 2 * BigPage
    /\ emitted[1].metrics.pagesProcessed = 3
    /\ pageRequests = 3

C3_Witness ==
  /\ C3_Scenario
  /\ input.pagination.maxPages = 3
  /\ Len(results) = 2 * BigPage

(***************************************************************************)
(* C4: retry enabled and every attempt answered with a retryable status:   *)
(* the call returns, with retryCount = maxRetries and a total delay equal  *)
(* to the sum of the backoff formula over 0..maxRetries-1.                 *)
(***************************************************************************)
C4_AllRetryableTotals ==
  (PolicyEnabled /\ CallEnded /\ AllRetryable) =>
    /\ Len(outcomes) = PolicyMaxRetries + 1
    /\ Retries = PolicyMaxRetries
    /\ totalRetryDelay = SumBackoff(PolicyMaxRetries)
    /\ thrown.message \notin TransportErrors \cup {ExhaustedError}
    /\ SingleReturned =>
         /\ handlerRetryCount = PolicyMaxRetries
         /\ handlerRetryDelayMs = SumBackoff(PolicyMaxRetries)
         /\ \A i \in DOMAIN emitted :
              /\ emitted[i].metrics.retryCount = PolicyMaxRetries
              /\ ReportedDelay(emitted[i]) = SumBackoff(PolicyMaxRetries)

C4_Witness ==
  /\ Advanced
  /\ input.retry.enabled
  /\ input.retry.retryDelay = 500
  /\ input.retry.exponentialBackoff
  /\ input.retry.maxRetries = 3
  /\ pc = "done"
  /\ AllRetryable
  /\ emitted[1].metrics.retryDelaysTotalMs = 3500

(***************************************************************************)
(* C5: with maxRetries = 0, or no retry policy, or a disabled one, a call  *)
(* issues exactly one attempt and never sleeps, whatever the attempt       *)
(* answers.                                                                *)
(***************************************************************************)
C5_NoRetryPolicy ==
  /\ Advanced
  /\ \/ input.retry.maxRetries = 0
     \/ ~input.retry.present
     \/ ~input.retry.enabled

C5_SingleAttempt ==
  C5_NoRetryPolicy =>
    /\ issued <= 1
    /\ sleeps = <<>>
    /\ pc # "sleep"
    /\ retryCount = 0
    /\ totalRetryDelay = 0
    /\ CallEnded => issued = 1 /\ Len(outcomes) = 1

C5_Witness ==
  /\ Advanced
  /\ input.retry.present
  /\ ~input.retry.enabled
  /\ input.retry.maxRetries = MaxRetriesBound
  /\ CallEnded
  /\ outcomes[1].status \in input.retry.retryOn
  /\ issued = 1

(***************************************************************************)
(* C6: the k-th sleep of a call lasts baseDelay * 2^(k-1) with exponential *)
(* backoff and baseDelay without, whatever caused the retry.               *)
(***************************************************************************)
C6_BackoffDelays ==
  \A k \in DOMAIN sleeps :
    sleeps[k] = IF PolicyExponential THEN PolicyBaseDelay * Pow2(k - 1)
                ELSE PolicyBaseDelay

C6_Witness ==
  /\ Advanced
  /\ sleeps = <<500, 1000, 2000>>
  /\ outcomes[1].kind = "error"
  /\ outcomes[2].kind = "response"

(***************************************************************************)
(* C7: every attempt of the call failed in transport: the handler rejects  *)
(* with the message of the last failure after exactly maxRetries + 1       *)
(* attempts, and nothing is passed to output.                              *)
(***************************************************************************)
C7_AllFailedIsFatal ==
  (AllFailed /\ CallEnded) =>
    /\ pc = "failed"
    /\ thrown.raised
    /\ thrown.message = Last(outcomes).message
    /\ Len(outcomes) = RetryBound + 1
    /\ issued = RetryBound + 1
    /\ emitted = <<>>

C7_Witness ==
  /\ Advanced
  /\ pc = "failed"
  /\ AllFailed
  /\ maxRetries >= 2
  /\ Len(outcomes) = maxRetries + 1
  /\ outcomes[1].message # Last(outcomes).message

(***************************************************************************)
(* C8: retries exhausted and the last attempt still answered a retryable   *)
(* status: no error is raised for it and the response is emitted as data   *)
(* with success = FALSE.                                                   *)
(***************************************************************************)
C8_Exhausted ==
  /\ ~Paged
  /\ PolicyEnabled
  /\ CallEnded
  /\ Len(outcomes) = RetryBound + 1
  /\ Last(outcomes).kind = "response"
  /\ Last(outcomes).status \in PolicyRetryOn
  /\ ~Is2xx(Last(outcomes).status)

C8_ExhaustedReturnedAsFailure ==
  C8_Exhausted =>
    /\ thrown.message \notin TransportErrors \cup {ExhaustedError}
    /\ pc = "done" =>
         /\ emitted[1].summary.status = Last(outcomes).status
         /\ emitted[1].summary.success = FALSE

(***************************************************************************)
(* C9: a response whose status is not retryable is returned at once: no    *)
(* sleep and no retry follow it, retryCount is left alone, and for a       *)
(* status outside 200..299 the result reports success = FALSE.             *)
(***************************************************************************)
C9_NonRetryable ==
  /\ outcomes # <<>>
  /\ pc \notin {"fetch", "rwrFetch"}
  /\ Last(outcomes).kind = "response"
  /\ Last(outcomes).status \notin PolicyRetryOn

C9_NonRetryableReturnedAtOnce ==
  C9_NonRetryable =>
    /\ pc \notin {"sleep", "rwrSleep"}
    /\ Retries = Len(outcomes) - 1
    /\ Len(sleeps) = Len(outcomes) - 1
    /\ issued = Len(outcomes)
    /\ (pc = "done" /\ ~Paged /\ ~Is2xx(Last(outcomes).status)) =>
         emitted[1].summary.success = FALSE

(***************************************************************************)
(* C10: a pagination run requests at most maxPages pages and reports       *)
(* pagesProcessed <= maxPages; when every page asks for a next one, the    *)
(* run ends after exactly maxPages pages with the items of those pages     *)
(* and without an error.                                                   *)
(***************************************************************************)
CursorDriven ==
  input.pagination.type = "cursor" /\ input.pagination.nextCursorPath # ""

(* a cursor that is empty or missing *)
NoCursor(v) == v = Undefined \/ v = StringValue("")

(* page i of the log announced a further page *)
AsksForMore(i) ==
  IF CursorDriven
  THEN ~NoCursor(pageLog[i].data.fields.next)
  ELSE pageLog[i].pageResults.t = "array" /\ pageLog[i].pageResults.n > 0

RECURSIVE Aggregate(_)
Aggregate(k) ==
  IF k <= 0 THEN <<>>
  ELSE Aggregate(k - 1) \o Pushed(pageLog[k].pageResults, k)

C10_Endless ==
  /\ Paged
  /\ Len(pageLog) = input.pagination.maxPages
  /\ \A i \in DOMAIN pageLog : AsksForMore(i)

C10_PagesCapped ==
  Paged =>
    /\ pageRequests <= input.pagination.maxPages
    /\ Len(pageLog) <= input.pagination.maxPages
    /\ PagesProcessedOf(page) <= input.pagination.maxPages
    /\ \A i \in DOMAIN emitted :
         emitted[i].metrics.pagesProcessed <= input.pagination.maxPages
    /\ C10_Endless =>
         /\ pc \in {"pageLoop", "done"}
         /\ ~thrown.raised
         /\ pageRequests = input.pagination.maxPages
         /\ pc = "done" =>
              /\ emitted[1].metrics.pagesProcessed = input.pagination.maxPages
              /\ emitted[1].data = Aggregate(input.pagination.maxPages)

C10_Witness ==
  /\ C10_Endless
  /\ input.pagination.maxPages = 2
  /\ pc = "done"
  /\ pageRequests = 2
  /\ Len(emitted[1].data) = 2 * BigPage

(***************************************************************************)
(* C11: cursor pagination.  After a page whose nextCursorPath is empty or  *)
(* missing, the items of that page are in the aggregate and no further     *)
(* page is requested; after a page with a cursor, the next page request    *)
(* carries exactly that cursor in its cursor parameter.                    *)
(***************************************************************************)
(* the value at nextCursorPath in the page decoded last *)
LastCursor ==
  getValueByPath(Last(pageLog).data, input.pagination.nextCursorPath)

(* a page request was made after the page decoded last *)
NextPageRequested == pageRequests > Len(pageLog)

C11_CursorFollowed ==
  (Paged /\ CursorDriven /\ pageLog # <<>>) =>
    IF ~NoCursor(LastCursor)
    THEN NextPageRequested =>
           /\ LastCursor.t = "string"
           /\ paginatedUrl.cursor = LastCursor.s
    ELSE /\ ~NextPageRequested
         /\ pc \in {"pageLoop", "done"}
         /\ results = Aggregate(Len(pageLog))
         /\ pc = "done" => emitted[1].data = Aggregate(Len(pageLog))

C11_Witness ==
  /\ Paged
  /\ CursorDriven
  /\ pc = "done"
  /\ Len(pageLog) = 3
  /\ pageLog[1].data.fields.next = StringValue("c1")
  /\ pageLog[2].data.fields.next = StringValue("c2")
  /\ pageLog[3].data.fields.next = StringValue("")
  /\ pageLog[3].pageResults = ArrayOf(1)
  /\ paginatedUrl.cursor = "c2"
  /\ Len(emitted[1].data) = 3

(***************************************************************************)
(* C12: the retryCount and the total retry delay of an emitted result are  *)
(* the number of retries performed and the sum of the delays slept during  *)
(* the whole operation, in single-request and in pagination mode.          *)
(***************************************************************************)
RECURSIVE SumSeq(_)
SumSeq(seq) ==
  IF seq = <<>> THEN 0 ELSE seq[1] + SumSeq(Tail(seq))

C12_ReportedRetryTotals ==
  \A i \in DOMAIN emitted :
    /\ emitted[i].metrics.retryCount = Len(allSleeps)
    /\ ReportedDelay(emitted[i]) = SumSeq(allSleeps)

(***************************************************************************)
(* C13: a transport failure (a network error, or the abort of the timeout) *)
(* of an attempt below maxRetries is retried whenever retry is enabled,    *)
(* whatever retryOn holds, the empty set included: the loop sleeps and     *)
(* nothing is thrown.                                                      *)
(***************************************************************************)
(* the attempt issued last has failed in transport and no other was issued *)
AttemptFailed ==
  /\ outcomes # <<>>
  /\ issued = Len(outcomes)
  /\ Last(outcomes).kind = "error"

C13_TransportFailureRetried ==
  (AttemptFailed /\ PolicyEnabled /\ Len(outcomes) - 1 < PolicyMaxRetries) =>
    /\ pc \in {"sleep", "rwrSleep"}
    /\ Len(sleeps) = Len(outcomes)
    /\ Retries = Len(outcomes)
    /\ ~thrown.raised

C13_Witness ==
  /\ Advanced
  /\ input.retry.retryOn = {}
  /\ pc = "sleep"
  /\ Len(outcomes) = 2
  /\ outcomes[1].message = "ECONNRESET"
  /\ outcomes[2].message = "AbortError"
  /\ Len(sleeps) = 2

(***************************************************************************)
(* C14: a transport failure that survives the retries while page k is      *)
(* fetched fails the whole operation: the handler rejects with that        *)
(* failure, no result is emitted, so the items of pages 1..k-1 are not     *)
(* returned, and no page after k is requested.                             *)
(***************************************************************************)
(* the handler raised a transport failure in pagination mode *)
PageFetchFailed ==
  /\ Paged
  /\ thrown.raised
  /\ thrown.message \in TransportErrors

C14_PageFailureIsFatal ==
  /\ [](PageFetchFailed =>
         /\ pc = "failed"
         /\ emitted = <<>>
         /\ Len(outcomes) = RetryBound + 1
         /\ thrown.message = Last(outcomes).message
         /\ pageRequests = Len(pageLog) + 1)
  /\ [][PageFetchFailed =>
          /\ pageRequests' = pageRequests
          /\ issued' = issued
          /\ emitted' = emitted]_vars

C14_Witness ==
  /\ PageFetchFailed
  /\ pc = "failed"
  /\ maxRetries = 1
  /\ Len(outcomes) = 2
  /\ pageRequests = 2
  /\ Len(results) = BigPage
  /\ emitted = <<>>

(***************************************************************************)
(* C15: when the first attempt of a call answers a 2xx status that is not  *)
(* retryable, the call ends there under every retry policy: one attempt,   *)
(* no sleep, retryCount = 0 and a total retry delay of 0, in the loop and  *)
(* in the result emitted.                                                  *)
(***************************************************************************)
FirstTry2xx ==
  /\ outcomes # <<>>
  /\ outcomes[1].kind = "response"
  /\ Is2xx(outcomes[1].status)
  /\ outcomes[1].status \notin PolicyRetryOn

C15_FirstTrySuccess ==
  FirstTry2xx =>
    /\ Len(outcomes) = 1
    /\ issued = 1
    /\ sleeps = <<>>
    /\ pc \notin {"sleep", "rwrSleep"}
    /\ Retries = 0
    /\ totalRetryDelay = 0
    /\ SingleReturned =>
         /\ handlerRetryCount = 0
         /\ handlerRetryDelayMs = 0
         /\ Len(pollLog) <= 1 => allSleeps = <<>>
         /\ \A i \in DOMAIN emitted :
              /\ emitted[i].metrics.retryCount = 0
              /\ ReportedDelay(emitted[i]) = 0

C15_Witness ==
  /\ Advanced
  /\ FirstTry2xx
  /\ input.retry.enabled
  /\ input.retry.maxRetries = MaxRetriesBound
  /\ input.retry.retryOn = DefaultRetryOn
  /\ pc = "done"
  /\ emitted[1].metrics.retryCount = 0
  /\ emitted[1].metrics.retryDelaysTotalMs = 0

(***************************************************************************)
(* C16: in every emitted result the duration is at least the total retry   *)
(* delay reported, and at least the sum of the delays slept, each sleep    *)
(* of d milliseconds advancing the clock by d or more.                     *)
(***************************************************************************)
C16_DurationCoversDelays ==
  \A i \in DOMAIN emitted :
    /\ emitted[i].summary.durationMs >= ReportedDelay(emitted[i])
    /\ emitted[i].summary.durationMs >= SumSeq(allSleeps)
    /\ Advanced =>
         emitted[i].metrics.totalDurationMs >= ReportedDelay(emitted[i])

C16_Witness ==
  /\ Advanced
  /\ pc = "done"
  /\ emitted[1].metrics.retryDelaysTotalMs = 3500
  /\ emitted[1].metrics.totalDurationMs = 3501
  /\ emitted[1].summary.durationMs = 3501

(***************************************************************************)
(* C17: an invocation ends in exactly one of two ways: one value passed    *)
(* to output and a normal return, or an error thrown and nothing passed    *)
(* to output.  output is never called twice, and once the invocation has   *)
(* ended no request is issued and nothing else happens.                    *)
(***************************************************************************)
Returned == pc = "done"
Rejected == pc = "failed"
Ended == emitted # <<>> \/ thrown.raised

C17_OneOutcome ==
  /\ [](/\ Len(emitted) <= 1
        /\ Returned <=> (Len(emitted) = 1 /\ ~thrown.raised)
        /\ Rejected <=> (thrown.raised /\ emitted = <<>>)
        /\ Ended <=> (Returned \/ Rejected))
  /\ [][Ended =>
          /\ issued' = issued
          /\ pageRequests' = pageRequests
          /\ emitted' = emitted
          /\ thrown' = thrown
          /\ pc' = pc]_vars
  /\ <>(Returned \/ Rejected)

C17_Witness ==
  /\ Advanced
  /\ Paged
  /\ Returned
  /\ Len(emitted) = 1
  /\ pageRequests = 2
  /\ allSleeps # <<>>

(***************************************************************************)
(* C18: at most one fetch is in flight.  An attempt is issued only when    *)
(* every earlier attempt of the call has completed; a retry is issued by   *)
(* the end of the sleep that followed the attempt before it; the first     *)
(* attempt of a page is issued only when every page requested before has   *)
(* been fetched, decoded and aggregated.                                   *)
(***************************************************************************)
Fetching == pc \in {"fetch", "rwrFetch"}
Sleeping == pc \in {"sleep", "rwrSleep"}

(* fetches issued by the current call and not yet completed *)
InFlight == issued - Len(outcomes)

(* this step issues a fetch *)
IssuesFetch == issued' = Len(outcomes') + 1 /\ (issued' # issued \/ ~Fetching)

C18_OneAtATime ==
  /\ [](/\ InFlight \in {0, 1}
        /\ Fetching <=> InFlight = 1
        /\ Sleeping => Len(sleeps) = Len(outcomes))
  /\ [][IssuesFetch =>
          /\ InFlight = 0
          /\ ~Fetching
          /\ outcomes' # <<>> =>
               /\ Sleeping
               /\ outcomes' = outcomes
               /\ Len(sleeps) = Len(outcomes)
          /\ pageRequests' # pageRequests =>
               /\ pc = "pageLoop"
               /\ pageRequests' = pageRequests + 1
               /\ Len(pageLog) = pageRequests
               /\ results = Aggregate(pageRequests)]_vars

C18_Witness ==
  /\ Paged
  /\ pc = "fetch"
  /\ pageRequests = 3
  /\ Len(pageLog) = 2
  /\ issued = 2
  /\ Len(outcomes) = 1
  /\ Len(sleeps) = 1
  /\ Len(allSleeps) = 2

(***************************************************************************)
(* C19: every attempt completing and every sleep ending, a call of the     *)
(* retry loop terminates, and in exactly one of three ways: it returns a   *)
(* response that is not retryable, it returns the last response with the   *)
(* retries exhausted, or it throws the last transport failure.             *)
(***************************************************************************)
(* the call threw: the handler rejected with an error of the retry loop *)
CallThrew == thrown.message \in TransportErrors \cup {ExhaustedError}

ReturnedNonRetryable ==
  /\ Last(outcomes).kind = "response"
  /\ Last(outcomes).status \notin PolicyRetryOn
  /\ ~CallThrew

ReturnedExhausted ==
  /\ Last(outcomes).kind = "response"
  /\ Last(outcomes).status \in PolicyRetryOn
  /\ Len(outcomes) = RetryBound + 1
  /\ ~CallThrew

ThrewLastFailure ==
  /\ Last(outcomes).kind = "error"
  /\ Len(outcomes) = RetryBound + 1
  /\ Rejected
  /\ thrown.message = Last(outcomes).message

(* how many of the three ways describe the end of the call *)
WaysEnded ==
  Cardinality({w \in {"nonRetryable", "exhausted", "failure"} :
    \/ w = "nonRetryable" /\ ReturnedNonRetryable
    \/ w = "exhausted" /\ ReturnedExhausted
    \/ w = "failure" /\ ThrewLastFailure})

C19_CallTerminates ==
  /\ [](CallEnded => WaysEnded = 1)
  /\ [](thrown.message # ExhaustedError)
  /\ (Fetching \/ Sleeping) ~> CallEnded

C19_Witness ==
  /\ CallEnded
  /\ ReturnedExhausted
  /\ RetryBound = MaxRetriesBound
  /\ outcomes[1].kind = "error"
  /\ Len(outcomes) = MaxRetriesBound + 1

(***************************************************************************)
(* C21: offset and page style.  The value extracted from each page is      *)
(* aggregated in page order, a sequence by its elements in order and any   *)
(* other value as one element; the next page is requested exactly when     *)
(* the value of the current page was a non-empty sequence and fewer than   *)
(* maxPages pages have been fetched; the aggregate is the concatenation    *)
(* of the items of the pages in the order they were fetched.               *)
(***************************************************************************)
OffsetOrPageStyle == Paged /\ input.pagination.type \in {"offset", "page"}

(* the items the value extracted from page pg contributes *)
ItemsOf(value, pg) ==
  IF value.t = "array"
  THEN [i \in 1..value.n |-> [page |-> pg, idx |-> i, t |-> "item"]]
  ELSE <<[page |-> pg, idx |-> 0, t |-> value.t]>>

RECURSIVE Concatenation(_)
Concatenation(k) ==
  IF k <= 0 THEN <<>>
  ELSE Concatenation(k - 1) \o ItemsOf(pageLog[k].pageResults, k)

NonEmptySequence(value) == value.t = "array" /\ value.n > 0

C21_OrderedAggregation ==
  OffsetOrPageStyle =>
    /\ results = Concatenation(Len(pageLog))
    /\ \A i \in 1..(Len(pageLog) - 1) :
         NonEmptySequence(pageLog[i].pageResults)
    /\ (pageLog # <<>> /\ pc # "pageLoop") =>
         (NextPageRequested <=>
            /\ NonEmptySequence(Last(pageLog).pageResults)
            /\ Len(pageLog) < input.pagination.maxPages)
    /\ pc = "done" =>
         /\ emitted[1].data = Concatenation(Len(pageLog))
         /\ emitted[1].metrics.totalRecords = Len(Concatenation(Len(pageLog)))

C21_Witness ==
  /\ OffsetOrPageStyle
  /\ input.pagination.maxPages = 3
  /\ pc = "done"
  /\ Len(pageLog) = 2
  /\ pageLog[1].pageResults = ArrayOf(BigPage)
  /\ pageLog[2].pageResults = NumberValue
  /\ Len(emitted[1].data) = BigPage + 1
  /\ emitted[1].data[BigPage + 1] = [page |-> 2, idx |-> 0, t |-> "number"]

(***************************************************************************)
(* C22: a body that is not valid JSON where JSON is expected ends the      *)
(* operation with an error whose cause is not that of a transport          *)
(* failure; the request itself had been answered, no attempt and no sleep  *)
(* follow the decode error, and nothing is passed to output.               *)
(***************************************************************************)
Decoding == pc \in {"parse", "pageDecode", "rwrParse"}

(* this step is response.json() rejecting *)
DecodeRejects ==
  /\ Decoding
  /\ input.ifStatusEquals = 0
  /\ input.ifBodyContains = <<>>
  /\ input.ifHeaderExists = ""
  /\ thrown'.raised

(* the handler rejected while it read a body *)
DecodeFailed ==
  /\ thrown.raised
  /\ thrown.message \notin TransportErrors \cup ValidationErrors

SpecRetryableStatuses == {408, 429, 500, 502, 503, 504}

(* the policy is the default one: given without retryOn, or built in *)
DefaultPolicy ==
  IF Advanced
  THEN input.retry.enabled /\ input.retry.retryOn = DefaultRetryOn
  ELSE TRUE

(* the attempt issued last was answered, and retries remained for it *)
AnsweredWithRetriesLeft ==
  /\ outcomes # <<>>
  /\ issued = Len(outcomes)
  /\ Last(outcomes).kind = "response"
  /\ Len(outcomes) - 1 < RetryBound

C23_DefaultRetryableStatuses ==
  (DefaultPolicy /\ AnsweredWithRetriesLeft) =>
    (Sleeping <=> Last(outcomes).status \in SpecRetryableStatuses)

(***************************************************************************)
(* C24: the request of page p is the base request with the parameters of   *)
(* the pagination style set and nothing else: offset style sets offset =   *)
(* (p - 1) * 50 and limit = 50, page style sets page = p, cursor style     *)
(* sets the cursor read from page p - 1 and sets none for p = 1.           *)
(***************************************************************************)
(* the cursor read from page i, "" when none was read *)
CursorReadFrom(i) ==
  IF CursorDriven /\ ~NoCursor(pageLog[i].data.fields.next)
  THEN pageLog[i].data.fields.next.s
  ELSE ""

(* the parameters the request of page p carries; -1 and "" for not set *)
ExpectedPageRequest(p) ==
  CASE input.pagination.type = "offset" ->
         [offset |-> (p - 1) * OffsetPageSize, limit |-> OffsetPageSize,
          page |-> -1, cursor |-> ""]
    [] input.pagination.type = "page" ->
         [offset |-> -1, limit |-> -1, page |-> p, cursor |-> ""]
    [] input.pagination.type = "cursor" ->
         [offset |-> -1, limit |-> -1, page |-> -1,
          cursor |-> IF p = 1 THEN "" ELSE CursorReadFrom(p - 1)]

C24_PageRequests ==
  (Paged /\ pageRequests >= 1) =>
    /\ paginatedUrl = ExpectedPageRequest(pageRequests)
    /\ NextPageRequested => page = pageRequests

C24_Witness ==
  /\ Paged
  /\ input.pagination.type = "offset"
  /\ pc = "fetch"
  /\ pageRequests = 3
  /\ paginatedUrl.offset = 100
  /\ paginatedUrl.limit = 50
  /\ issued = 2

(***************************************************************************)
(* C25: a body that is an object is transmitted as its JSON text and a     *)
(* body that is already text is transmitted unchanged, not serialized      *)
(* again; parsing the JSON text of a mapping gives back a mapping equal    *)
(* to the original, the order of the keys aside.                           *)
(***************************************************************************)
ParseFailed == [ok |-> FALSE, chars |-> <<>>, value |-> LiteralMember("null"),
                members |-> <<>>, next |-> 0]

(* a JSON string read from the character after its opening quote *)
RECURSIVE ParseStringFrom(_, _, _)
ParseStringFrom(text, i, acc) ==
  IF i > Len(text) THEN ParseFailed
  ELSE IF text[i] = Quote
  THEN [ParseFailed EXCEPT !.ok = TRUE, !.chars = acc, !.next = i + 1]
  ELSE IF text[i] = Backslash
  THEN IF i + 1 > Len(text) THEN ParseFailed
       ELSE ParseStringFrom(text, i + 2, Append(acc, text[i + 1]))
  ELSE ParseStringFrom(text, i + 1, Append(acc, text[i]))

StartsWith(text, i, word) ==
  /\ i + Len(word) - 1 <= Len(text)
  /\ SubSeq(text, i, i + Len(word) - 1) = word

(* a JSON value read from character i *)
ParseValueAt(text, i) ==
  IF i > Len(text) THEN ParseFailed
  ELSE IF text[i] = Quote
  THEN LET str == ParseStringFrom(text, i + 1, <<>>)
       IN [str EXCEPT !.value = StringMember(str.chars)]
  ELSE IF StartsWith(text, i, <<"t", "r", "u", "e">>)
  THEN [ParseFailed EXCEPT !.ok = TRUE, !.value = LiteralMember("true"),
                           !.next = i + 4]
  ELSE IF StartsWith(text, i, <<"f", "a", "l", "s", "e">>)
  THEN [ParseFailed EXCEPT !.ok = TRUE, !.value = LiteralMember("false"),
                           !.next = i + 5]
  ELSE IF StartsWith(text, i, <<"n", "u", "l", "l">>)
  THEN [ParseFailed EXCEPT !.ok = TRUE, !.value = LiteralMember("null"),
                           !.next = i + 4]
  ELSE IF \E d \in DOMAIN Digits : Digits[d] = text[i]
  THEN [ParseFailed EXCEPT
          !.ok = TRUE,
          !.value = NumberMember((CHOOSE d \in DOMAIN Digits :
                                    Digits[d] = text[i]) - 1),
          !.next = i + 1]
  ELSE ParseFailed

(* the members of a JSON object read from character i *)
RECURSIVE ParseMembers(_, _, _)
ParseMembers(text, i, acc) ==
  IF i > Len(text) THEN ParseFailed
  ELSE IF text[i] = "}"
  THEN [ParseFailed EXCEPT !.ok = (i = Len(text)), !.members = acc]
  ELSE IF text[i] = ","
  THEN IF acc = <<>> THEN ParseFailed ELSE ParseMembers(text, i + 1, acc)
  ELSE IF text[i] = Quote
  THEN LET key == ParseStringFrom(text, i + 1, <<>>)
       IN IF ~key.ok \/ key.next > Len(text) THEN ParseFailed
          ELSE IF text[key.next] # ":" THEN ParseFailed
          ELSE LET val == ParseValueAt(text, key.next + 1)
               IN IF ~val.ok THEN ParseFailed
                  ELSE ParseMembers(text, val.next,
                         Append(acc, [key |-> key.chars,
                                      value |-> val.value]))
  ELSE ParseFailed

(* JSON.parse of the text of an object *)
JsonParse(text) ==
  IF text # <<>> /\ text[1] = "{" THEN ParseMembers(text, 2, <<>>)
  ELSE ParseFailed

(* the mapping a sequence of members stands for: the last member of a key *)
AsMapping(mem) ==
  [k \in {mem[i].key : i \in DOMAIN mem} |->
     mem[CHOOSE i \in DOMAIN mem :
           /\ mem[i].key = k
           /\ \A j \in DOMAIN mem : mem[j].key = k => j <= i].value]

(* the request was built for a method that carries the body given *)
BodyTransmitted ==
  /\ pc # "start"
  /\ input.method \in BodyMethods
  /\ input.body.t # "none"

C25_BodySerialization ==
  BodyTransmitted =>
    /\ requestBody.present
    /\ input.body.t = "text" => requestBody.text = input.body.chars
    /\ input.body.t = "object" =>
         /\ JsonParse(requestBody.text).ok
         /\ AsMapping(JsonParse(requestBody.text).members)
              = AsMapping(input.body.members)

(***************************************************************************)
(* C26: in pagination mode the status of the response a page ends with is  *)
(* never looked at: such a page is decoded and appended to the aggregate   *)
(* whatever its status, no error is raised for a status, and a run whose   *)
(* loop completes reports status 200, statusText OK and success = TRUE.    *)
(***************************************************************************)
(* the call for the current page returned a response *)
PageAnswered ==
  /\ Paged
  /\ CallEnded
  /\ Last(outcomes).kind = "response"

C26_PageStatusIgnored ==
  /\ PageAnswered =>
       \/ pc = "pageDecode"
       \/ Rejected /\ DecodeFailed /\ Len(pageLog) = pageRequests - 1
       \/ /\ pc \in {"pageLoop", "done"}
          /\ Len(pageLog) = pageRequests
          /\ results = Concatenation(Len(pageLog))
  /\ (Paged /\ thrown.raised) =>
       thrown.message \in TransportErrors \cup {DecodeError}
  /\ (Paged /\ Returned) =>
       /\ emitted[1].summary.status = 200
       /\ emitted[1].summary.statusText = "OK"
       /\ emitted[1].summary.success = TRUE
       /\ emitted[1].data = Concatenation(Len(pageLog))

C26_Witness ==
  /\ Paged
  /\ Returned
  /\ pageRequests = 2
  /\ Len(outcomes) = 2
  /\ outcomes[1].status = 503
  /\ outcomes[2].status = 503
  /\ emitted[1].summary.status = 200
  /\ Len(emitted[1].data) = BigPage + 1

(***************************************************************************)
(* C27: cursor style without nextCursorPath.  The cursor is never set, so  *)
(* every page request is the first one again; the run goes on while the    *)
(* value extracted is a non-empty array, up to maxPages requests; when     *)
(* every request is answered with the first page, the aggregate holds the  *)
(* items of that page once per request.                                    *)
(***************************************************************************)
CursorWithoutPath ==
  /\ Paged
  /\ input.pagination.type = "cursor"
  /\ input.pagination.nextCursorPath = ""

(* every page fetched so far was the first page again *)
SamePageEveryTime ==
  \A i \in DOMAIN pageLog : pageLog[i].data = pageLog[1].data

C27_CursorNeverSet ==
  CursorWithoutPath =>
    /\ cursor = Undefined
    /\ paginatedUrl = NoUrl
    /\ (pageLog # <<>> /\ pc # "pageLoop") =>
         (NextPageRequested <=>
            /\ NonEmptySequence(Last(pageLog).pageResults)
            /\ Len(pageLog) < input.pagination.maxPages)
    /\ (SamePageEveryTime /\ pageLog # <<>>
          /\ NonEmptySequence(pageLog[1].pageResults)) =>
         /\ Len(results) = Len(pageLog) * pageLog[1].pageResults.n
         /\ \A j \in DOMAIN results :
              results[j].idx = ((j - 1) % pageLog[1].pageResults.n) + 1
         /\ Returned =>
              /\ pageRequests = input.pagination.maxPages
              /\ Len(emitted[1].data)
                   = input.pagination.maxPages * pageLog[1].pageResults.n

C27_Witness ==
  /\ CursorWithoutPath
  /\ input.pagination.maxPages = 3
  /\ Returned
  /\ SamePageEveryTime
  /\ pageLog[1].data = ObjectBody(ArrayOf(1), StringValue("c1"))
  /\ pageRequests = 3
  /\ Len(emitted[1].data) = 3

(***************************************************************************)
(* C28: the conditional validations are evaluated once, on the response    *)
(* the retry loop has returned.  A condition that fails makes the handler  *)
(* throw: no result is emitted and no further attempt is made, retries left *)
(* or not.  When every configured condition holds the result is emitted.   *)
(***************************************************************************)
(* the step of the single request that reads the body and validates *)
Validating == Advanced /\ ~Paged /\ pc = "parse" /\ pc' # "parse"

StatusHolds ==
  input.ifStatusEquals = 0 \/ response.status = input.ifStatusEquals
HeaderHolds ==
  input.ifHeaderExists = "" \/ input.ifHeaderExists \in response.headers
BodyHolds(data) ==
  \/ input.ifBodyContains = <<>>
  \/ Includes(ResponseDataText(data), input.ifBodyContains)

C28_ValidationIsFinal ==
  [][Validating =>
       /\ pc' \in {"done", "failed"}
       /\ issued' = issued
       /\ response' = response
       /\ thrown'.raised <=> emitted' = <<>>
       /\ emitted' # <<>> =>
            /\ Len(emitted') = 1
            /\ StatusHolds
            /\ HeaderHolds
            /\ input.responseType = "json" => BodyHolds(emitted'[1].data)
       /\ thrown'.raised =>
            /\ thrown'.message \in ValidationErrors \cup {DecodeError}
            /\ thrown'.message = StatusMismatch => ~StatusHolds
            /\ ~StatusHolds => thrown'.message \in {StatusMismatch, DecodeError}
            /\ thrown'.message = HeaderMissing => ~HeaderHolds
            /\ thrown'.message = BodyMismatch => input.ifBodyContains # <<>>
            /\ (StatusHolds /\ ~HeaderHolds) =>
                 thrown'.message \in {BodyMismatch, HeaderMissing, DecodeError}
  ]_vars

C28_Witness ==
  /\ Advanced
  /\ input.retry.enabled /\ maxRetries = 1
  /\ input.ifStatusEquals = 200
  /\ input.ifBodyContains = <<"1">>
  /\ input.ifHeaderExists = "etag"
  /\ Rejected
  /\ thrown.message = BodyMismatch
  /\ response.status = 200 /\ response.headers = {"etag"}
  /\ issued = 1 /\ retryCount = 0
  /\ emitted = <<>>

(***************************************************************************)
(* C29: http:advanced:request with polling.enabled.  At least one request  *)
(* is made, whatever timeoutMs is; the loop ends with the first ok         *)
(* response, or with the first look at the clock that finds the deadline   *)
(* passed; every poll that is not ok is followed by a sleep of intervalMs; *)
(* past the deadline the last response is emitted, success false, and no   *)
(* error is thrown; retries and totalRetryMs are those of the last poll.   *)
(***************************************************************************)
PollingRun == actionId = PollingAction /\ input.polling.enabled

Deadline == startTime + input.polling.timeoutMs

(* the body of a poll has been read *)
PollRead == PollingRun /\ pc = "rwrParse" /\ ~thrown'.raised

(* the sleep between two polls is over *)
PollSlept == PollingRun /\ pc = "pollSleep" /\ pc' # "pollSleep"

C29_PollingLoop ==
  /\ [](PollingRun =>
          /\ pc # "start" => issued >= 1
          /\ \A i \in 1..(Len(pollLog) - 1) : ~Is2xx(pollLog[i].status)
          /\ Returned =>
               /\ ~thrown.raised
               /\ emitted[1].summary.status = Last(pollLog).status
               /\ emitted[1].summary.success = Is2xx(Last(pollLog).status)
               /\ emitted[1].summary.retries = Last(pollLog).retries
               /\ emitted[1].metrics.retryCount = Last(pollLog).retries
               /\ emitted[1].metrics.totalRetryMs = Last(pollLog).totalRetryMs
               /\ ~Is2xx(Last(pollLog).status) => now >= Deadline)
  /\ [][/\ PollRead =>
            IF Is2xx(response.status)
            THEN Returned' /\ allSleeps' = allSleeps
            ELSE /\ pc' = "pollSleep"
                 /\ allSleeps' = Append(allSleeps, input.polling.intervalMs)
                 /\ emitted' = <<>>
        /\ PollSlept =>
            /\ now' >= now + input.polling.intervalMs
            /\ IF now' < Deadline
               THEN /\ pc' = "rwrFetch"
                    /\ issued' = 1
                    /\ attempt' = 0 /\ totalRetryDelay' = 0
                    /\ emitted' = <<>>
               ELSE /\ Returned'
                    /\ emitted'[1].data = pollResponseData
                    /\ emitted'[1].summary.success = FALSE
       ]_vars

(* a first poll that was retried, a second one that was not, both answered *)
(* 404, and the deadline passed after the second                           *)
C29_Witness ==
  /\ PollingRun
  /\ Returned
  /\ Len(pollLog) = 2
  /\ pollLog[1].retries = 1 /\ pollLog[1].totalRetryMs = 500
  /\ pollLog[2].retries = 0
  /\ pollLog[2].status = 404
  /\ emitted[1].summary.success = FALSE
  /\ emitted[1].summary.retries = 0
  /\ emitted[1].metrics.totalRetryMs = 0
  /\ allSleeps = <<500, 5000, 5000>>
  /\ now >= Deadline

(***************************************************************************)
(* C30: the webhook plugin.  With webhook.token configured, a request      *)
(* whose Authorization header is not exactly "Bearer <token>" is answered  *)
(* 401 and never reaches the POST handler: no notification is created for  *)
(* it.  Without a token every request reaches the handler.  A request that *)
(* is let through and names no recipient (none of recipient,               *)
(* backstage_user, user, username, group) is answered 400 and creates no   *)
(* notification.                                                           *)
(***************************************************************************)
TokenConfigured == webhookToken.t = "string"

ExactBearer ==
  /\ request.authorization.t = "string"
  /\ request.authorization.chars
       = <<"B", "e", "a", "r", "e", "r", " ">> \o webhookToken.chars

RecipientFields ==
  {"recipient", "backstage_user", "user", "username", "group"}

NamesNoRecipient ==
  \A f \in RecipientFields :
     request.payload[f].t = "undefined" \/ request.payload[f].chars = <<>>

Answered == pc = "replied"

====
